---- MODULE Spec2Model ----
(***************************************************************************)
(* Model of src/Deepbot.py: the per-user quiz sessions kept in the global  *)
(* dictionary user_states and the aiogram callback handlers that read and  *)
(* mutate them.                                                            *)
(*                                                                         *)
(* Scheduling: aiogram's polling dispatcher runs every update as its own   *)
(* asyncio task on one event loop.  A handler therefore runs atomically    *)
(* from one network await (bot.send_message, callback.answer) to the next, *)
(* and handlers interleave exactly at those awaits.  Every action below is *)
(* one such segment, so every state of the model is a state in which each  *)
(* handler in flight is suspended at an await (or finished).  Awaiting a   *)
(* coroutine of the program itself (send_question, end_quiz, ...) does not *)
(* suspend: it is part of the caller's segment.                            *)
(*                                                                         *)
(* A handler whose remaining code only sends messages and returns (the     *)
(* notice of line 214, the messages of lines 128 and 150, the summary of   *)
(* line 159, the main menu of line 79, the question of line 114) reads and *)
(* writes no modelled state any more: its segment ends the handler, with   *)
(* the outcome it reports.                                                 *)
(*                                                                         *)
(* Transport calls are taken to return normally.  Two keys of the session  *)
(* dict are left out: total_time_start (read only for the summary text)    *)
(* and last_message_id (written in line 119, never read).  The texts of    *)
(* the messages are not modelled either.                                   *)
(***************************************************************************)
EXTENDS Integers, Sequences, FiniteSets, Bags, TLC

VARIABLES
    user_states,   \* user_states (line 35): user id -> heap index of the session dict, 0 = no key
    heap,          \* every session dict ever created (handlers keep references to them)
    handlers,      \* the bag of handler tasks in flight, each with its position and locals
    messages,      \* the question messages sent to the chats (their buttons stay tappable)
    events,        \* number of updates dispatched so far
    finished,      \* history: <<handler, outcome>> of the handlers that are over
    ghost          \* history per session dict: owner, answers scored per position, summaries,
                   \* events taken, taps on the right and on a wrong option, failure reported

vars == <<user_states, heap, handlers, messages, events, finished, ghost>>

(***************************************************************************)
(* Bounds                                                                  *)
(***************************************************************************)
MaxEvents == 3

Users == {"u1", "u2"}

None == 0

(***************************************************************************)
(* Strings that the code parses are sequences of characters.               *)
(***************************************************************************)
Str_answer_ == <<"a", "n", "s", "w", "e", "r", "_">>

OptA == <<"A">>
OptB == <<"B">>
OptP == Str_answer_ \o <<"A">>

\* str.replace(old, new) for a non-empty old: every non-overlapping occurrence,
\* scanning from the left.
RECURSIVE Replace(_, _, _)
Replace(s, old, new) ==
    IF Len(s) < Len(old) THEN s
    ELSE IF SubSeq(s, 1, Len(old)) = old
         THEN new \o Replace(SubSeq(s, Len(old) + 1, Len(s)), old, new)
         ELSE <<Head(s)>> \o Replace(Tail(s), old, new)

\* callback_data of an option button (line 111)
CallbackData(option) == Str_answer_ \o option

\* F.data.startswith("answer_") (line 209)
IsAnswerData(data) ==
    /\ Len(data) >= Len(Str_answer_)
    /\ SubSeq(data, 1, Len(Str_answer_)) = Str_answer_

\* selected = callback.data.replace("answer_", "") (line 217)
Selected(data) == Replace(data, Str_answer_, <<>>)

(***************************************************************************)
(* The topic files.  A question is a dict: a record whose DOMAIN is the    *)
(* set of keys it has.                                                     *)
(***************************************************************************)
QFrance   == [question |-> "Capital of France?", options |-> <<OptA, OptB>>, answer |-> OptA]
QJapan    == [question |-> "Capital of Japan?", options |-> <<OptA, OptB>>, answer |-> OptB]
QNoAnswer == [question |-> "No answer key", options |-> <<OptA, OptB>>]
QPrefixed == [question |-> "Option text holds answer_", options |-> <<OptP, OptB>>, answer |-> OptP]

\* An element of "questions" that is not a JSON object: null, None once loaded.
\* load_topics (lines 60-71) only checks that "questions" is a list.
QNull == [json |-> "null"]

\* isinstance(q, dict)
IsDict(q) == "json" \notin DOMAIN q

\* A file that open()/json.load() reads (readable, with its "questions"), or one
\* that makes them raise.
File(qs) == [readable |-> TRUE, questions |-> qs]
Unreadable == [readable |-> FALSE, questions |-> <<>>]

\* topic path -> the file found there when the quiz is started
TopicFiles ==
    [capitals |-> File(<<QFrance, QJapan>>),
     noanswer |-> File(<<QNoAnswer, QFrance>>),
     prefixed |-> File(<<QPrefixed>>),
     nulls    |-> File(<<QNull>>),
     empty    |-> File(<<>>),
     gone     |-> Unreadable]

Topics == DOMAIN TopicFiles

\* The topics a user selects.  The second user is the bystander of the properties
\* about other users and takes the quiz whose questions are all valid.
TopicsOf(u) == IF u = "u1" THEN Topics ELSE {"capitals"}

AllOptions == {OptA, OptB, OptP}

\* the options on the buttons of the messages of earlier runs
StaleOptions == {OptA, OptB}

\* Mutant of Shuffles: random.choices(quiz_data, k=len(quiz_data)), a sample
\* with replacement.
ShufflesResampled(qs) ==
    LET n == Len(qs) IN {[i \in 1..n |-> qs[f[i]]] : f \in [1..n -> 1..n]}

\* random.shuffle(quiz_data) (line 132): any permutation of the list
Shuffles(qs) ==
    LET n == Len(qs)
        perms == {p \in [1..n -> 1..n] : \A i, j \in 1..n : p[i] = p[j] => i = j}
    IN  {[i \in 1..n |-> qs[p[i]]] : p \in perms}

\* Mutant of NoQuestions: the check of line 127 is missing.
NoQuestionsUnchecked(quiz_data) == FALSE

\* not quiz_data (line 127)
NoQuestions(quiz_data) == quiz_data = <<>>

\* the check of line 102, on a dict
IsValidQuestion(q) ==
    /\ "question" \in DOMAIN q
    /\ "options" \in DOMAIN q
    /\ "answer" \in DOMAIN q

(***************************************************************************)
(* Session dicts (lines 134-143)                                           *)
(***************************************************************************)
NewSession(quiz_data) ==
    [questions           |-> quiz_data,
     current_q_index     |-> 0,
     score               |-> 0,
     correct_answers     |-> 0,
     incorrect_answers   |-> 0,
     attempted_questions |-> 0]

NewGhost(u, quiz_data) ==
    [owner     |-> u,
     scored    |-> [i \in 1..Len(quiz_data) |-> 0],
     summaries |-> 0,
     status    |-> "live",
     report    |-> "",
     taken     |-> 0,
     right     |-> 0,
     wrong     |-> 0]

\* Mutant of Lookup: one global "current session" instead of one per user.
LookupGlobal(u) == Len(heap)

\* Mutant of Lookup: user_states.get(user_id, <the last session created>).
LookupOrLast(u) == IF user_states[u] # None THEN user_states[u] ELSE Len(heap)

\* user_states.get(user_id) (lines 88, 212, 235)
Lookup(u) == user_states[u]

\* Mutant of Pop: user_states.get(uid) in end_quiz, which removes nothing.
PopKeeps(uid) == user_states

\* Mutant of EndQuiz: user_states.get(uid) instead of pop.
EndQuizKeeps(store, uid) == [store |-> store, summary |-> store[uid]]

\* end_quiz(uid) (lines 153-168) on the dictionary `store`: the dictionary
\* afterwards and the session dict whose counters the summary reports, None when
\* it returns at line 156 without a summary.
EndQuiz(store, uid) ==
    [store |-> [store EXCEPT ![uid] = None], summary |-> store[uid]]

\* user_states.pop(uid, None) (line 154): the dictionary afterwards
Pop(uid) == EndQuiz(user_states, uid).store

\* questions[idx] for the 0-based idx of the code
QuestionAt(s, idx) == s.questions[idx + 1]

\* A handler task in flight: the handler it runs, callback.from_user.id, the await
\* it is suspended at, the session dict that handle_answer or skip_question holds
\* in its local `state` (lines 212, 235; None in start_quiz_from_file) and the one
\* that send_question holds in its own `state` (line 88; None outside it).
Suspended(kind, u, pc, st, sq_state) ==
    [kind |-> kind, user |-> u, pc |-> pc, state |-> st, sq_state |-> sq_state]

\* rest: the other tasks in flight.  The task goes on suspended as rec ...
Suspend(rest, rec) ==
    /\ handlers' = rest (+) SetToBag({rec})
    /\ UNCHANGED finished

\* ... or is over: it returned, or raised the exception `outcome`
Finish(rest, kind, outcome) ==
    /\ handlers' = rest
    /\ finished' = finished \cup {<<kind, outcome>>}

\* A new update of user u is dispatched as a task of its own.  The users are
\* interchangeable: the one who sends the first update is called u1.
Dispatch(u) ==
    /\ events < MaxEvents
    /\ events = 0 => u = "u1"
    /\ events' = events + 1

Others(h) == handlers (-) SetToBag({h})

InFlight == BagToSet(handlers)

Init ==
    /\ user_states = [u \in Users |-> None]
    /\ heap = <<>>
    /\ handlers = EmptyBag
    /\ messages = <<>>
    /\ events = 0
    /\ finished = {}
    /\ ghost = <<>>

(***************************************************************************)
(* send_question (lines 87-119), from its entry to its first await.  It is *)
(* always called in tail position, on the heap hp and the history gh its   *)
(* caller leaves.                                                          *)
(***************************************************************************)
SendQuestion(rest, kind, u, caller_state, hp, gh) ==
    LET st == Lookup(u) IN
    IF st = None
    THEN \* lines 89-91: send_main_menu
         /\ heap' = hp
         /\ ghost' = gh
         /\ Finish(rest, kind, "MainMenu")
         /\ UNCHANGED <<user_states, messages>>
    ELSE
      LET state == hp[st]
          idx == state.current_q_index
      IN
      IF idx >= Len(state.questions)
      THEN \* lines 96-98 and end_quiz, lines 154-168: pop, the summary, the menu
           /\ heap' = hp
           /\ user_states' = Pop(u)
           /\ ghost' = [gh EXCEPT ![st].summaries = @ + 1, ![st].status = "ended"]
           /\ Finish(rest, kind, "Summary")
           /\ UNCHANGED messages
      ELSE IF ~IsDict(QuestionAt(state, idx))
      THEN \* line 102 raises TypeError; in start_quiz_from_file the except of
           \* lines 148-151 reports it as a file-read error
           /\ heap' = hp
           /\ IF kind = "start_quiz"
              THEN /\ ghost' = [gh EXCEPT ![st].report = "LoadError"]
                   /\ Finish(rest, kind, "LoadError")
              ELSE /\ ghost' = gh
                   /\ Finish(rest, kind, "TypeError")
           /\ UNCHANGED <<user_states, messages>>
      ELSE IF ~IsValidQuestion(QuestionAt(state, idx))
      THEN \* lines 102-104: the skip diagnostic is being sent
           /\ heap' = hp
           /\ ghost' = gh
           /\ Suspend(rest, Suspended(kind, u, "L104", caller_state, st))
           /\ UNCHANGED <<user_states, messages>>
      ELSE \* lines 109-118: the question and its buttons are being sent
           /\ heap' = hp
           /\ messages' = Append(messages, [session |-> st, pos |-> idx])
           /\ ghost' = gh
           /\ Finish(rest, kind, "Question")
           /\ UNCHANGED user_states

\* Mutant of Advance: the increment also counts the question as attempted.
AdvanceCounting(hp, st) ==
    [hp EXCEPT ![st].current_q_index = @ + 1, ![st].attempted_questions = @ + 1]

\* state['current_q_index'] += 1 (lines 105, 229, 237)
Advance(hp, st) == [hp EXCEPT ![st].current_q_index = @ + 1]

(***************************************************************************)
(* start_quiz_from_file (lines 121-151), reached from start_gk_quiz and    *)
(* start_ca_quiz for a cached topic.                                       *)
(***************************************************************************)
StartQuiz(u, t) ==
    /\ Dispatch(u)
    /\ LET file == TopicFiles[t]
           old == user_states[u]
       IN
       IF ~file.readable
       THEN \* lines 148-151
            /\ Finish(handlers, "start_quiz", "LoadError")
            /\ UNCHANGED <<user_states, heap, messages, ghost>>
       ELSE IF NoQuestions(file.questions)
       THEN \* lines 127-130
            /\ Finish(handlers, "start_quiz", "EmptyTopic")
            /\ UNCHANGED <<user_states, heap, messages, ghost>>
       ELSE \* lines 132-145
            \E quiz_data \in Shuffles(file.questions) :
               /\ heap' = Append(heap, NewSession(quiz_data))
               /\ user_states' = [user_states EXCEPT ![u] = Len(heap) + 1]
               /\ ghost' = Append(IF old = None THEN ghost
                                  ELSE [ghost EXCEPT ![old].status = "replaced"],
                                  NewGhost(u, quiz_data))
               /\ Suspend(handlers, Suspended("start_quiz", u, "L145", None, None))
               /\ UNCHANGED messages

\* line 146
ResumeL145(h) ==
    /\ h.pc = "L145"
    /\ SendQuestion(Others(h), h.kind, h.user, h.state, heap, ghost)
    /\ UNCHANGED events

\* lines 105-107
ResumeL104(h) ==
    /\ h.pc = "L104"
    /\ SendQuestion(Others(h), h.kind, h.user, h.state, Advance(heap, h.sq_state), ghost)
    /\ UNCHANGED events

(***************************************************************************)
(* handle_answer (lines 209-230).  The update is a tap on the button       *)
(* `option`; msg is the question message the button is on, None for a      *)
(* message of an earlier run of the bot (user_states is empty at startup,  *)
(* the chats' buttons are not).                                            *)
(***************************************************************************)
\* Mutant of Score: line 223 (correct_answers += 1) is missing.
ScoreWithoutCorrect(s, selected, current_q) ==
    LET attempted == [s EXCEPT !.attempted_questions = @ + 1] IN
    IF selected = current_q.answer
    THEN [attempted EXCEPT !.score = @ + 1]
    ELSE [attempted EXCEPT !.incorrect_answers = @ + 1]

\* lines 220-227 on the session dict s: the counters after the answer
Score(s, selected, current_q) ==
    LET attempted == [s EXCEPT !.attempted_questions = @ + 1] IN
    IF selected = current_q.answer
    THEN [attempted EXCEPT !.score = @ + 1, !.correct_answers = @ + 1]
    ELSE [attempted EXCEPT !.incorrect_answers = @ + 1]

\* the buttons a user can tap: those of the question messages of their own chat
ButtonOn(u, msg, option) ==
    IF msg = None THEN option \in StaleOptions
    ELSE /\ msg \in 1..Len(messages)
         /\ ghost[messages[msg].session].owner = u
         /\ \E i \in 1..Len(QuestionAt(heap[messages[msg].session], messages[msg].pos).options) :
               QuestionAt(heap[messages[msg].session], messages[msg].pos).options[i] = option

HandleAnswer(u, msg, option) ==
    /\ Dispatch(u)
    /\ ButtonOn(u, msg, option)
    /\ IsAnswerData(CallbackData(option))
    /\ LET st == Lookup(u) IN
       IF st = None
       THEN \* lines 213-215
            /\ Finish(handlers, "handle_answer", "SessionNotFound")
            /\ UNCHANGED <<user_states, heap, messages, ghost>>
       ELSE
         LET state == heap[st]
             idx == state.current_q_index
             selected == Selected(CallbackData(option))
         IN
         IF idx >= Len(state.questions)
         THEN \* line 218 raises IndexError
              /\ ghost' = [ghost EXCEPT ![st].taken = @ + 1]
              /\ Finish(handlers, "handle_answer", "IndexError")
              /\ UNCHANGED <<user_states, heap, messages>>
         ELSE IF "answer" \notin DOMAIN QuestionAt(state, idx)
         THEN \* line 220, then line 221 raises KeyError, TypeError on None
              /\ heap' = [heap EXCEPT ![st].attempted_questions = @ + 1]
              /\ ghost' = [ghost EXCEPT ![st].scored[idx + 1] = @ + 1, ![st].taken = @ + 1]
              /\ Finish(handlers, "handle_answer",
                        IF IsDict(QuestionAt(state, idx)) THEN "KeyError" ELSE "TypeError")
              /\ UNCHANGED <<user_states, messages>>
         ELSE \* lines 220-227, suspended in callback.answer
              /\ heap' = [heap EXCEPT ![st] = Score(state, selected, QuestionAt(state, idx))]
              /\ ghost' = [ghost EXCEPT ![st].scored[idx + 1] = @ + 1,
                                         ![st].taken = @ + 1,
                                         ![st].right = IF option = QuestionAt(state, idx).answer
                                                       THEN @ + 1 ELSE @,
                                         ![st].wrong = IF option = QuestionAt(state, idx).answer
                                                       THEN @ ELSE @ + 1]
              /\ Suspend(handlers, Suspended("handle_answer", u,
                            IF selected = QuestionAt(state, idx).answer THEN "L224" ELSE "L227",
                            st, None))
              /\ UNCHANGED <<user_states, messages>>

\* lines 229-230
ResumeAnswer(h) ==
    /\ h.pc \in {"L224", "L227"}
    /\ SendQuestion(Others(h), h.kind, h.user, h.state, Advance(heap, h.state), ghost)
    /\ UNCHANGED events

(***************************************************************************)
(* skip_question (lines 232-238)                                           *)
(***************************************************************************)
SkipQuestion(u) ==
    /\ Dispatch(u)
    /\ LET st == Lookup(u) IN
       IF st = None
       THEN /\ Finish(handlers, "skip_question", "SessionNotFound")
            /\ UNCHANGED <<user_states, heap, messages, ghost>>
       ELSE SendQuestion(handlers, "skip_question", u, st, Advance(heap, st),
                         [ghost EXCEPT ![st].taken = @ + 1])

Resume(h) ==
    \/ ResumeL145(h)
    \/ ResumeL104(h)
    \/ ResumeAnswer(h)

Next ==
    \/ \E u \in Users : \E t \in TopicsOf(u) : StartQuiz(u, t)
    \/ \E u \in Users, msg \in 0..Len(messages), option \in AllOptions : HandleAnswer(u, msg, option)
    \/ \E u \in Users : SkipQuestion(u)
    \/ \E h \in InFlight : Resume(h)

Spec == Init /\ [][Next]_vars

(***************************************************************************)
(* The same handlers when updates are processed one after another: an      *)
(* update is dispatched only when no handler is in flight.                 *)
(***************************************************************************)
NextSeq ==
    \/ /\ handlers = EmptyBag
       /\ \E u \in Users : \E t \in TopicsOf(u) : StartQuiz(u, t)
    \/ /\ handlers = EmptyBag
       /\ \E u \in Users, msg \in 0..Len(messages), option \in AllOptions :
             HandleAnswer(u, msg, option)
    \/ /\ handlers = EmptyBag
       /\ \E u \in Users : SkipQuestion(u)
    \/ \E h \in InFlight : Resume(h)

SpecSeq == Init /\ [][NextSeq]_vars

(***************************************************************************)
(* Properties                                                              *)
(***************************************************************************)
Sessions == 1..Len(heap)

Cursor(o) == heap[o].current_q_index

Length(o) == Len(heap[o].questions)

Counters(o) ==
    <<heap[o].score, heap[o].correct_answers, heap[o].incorrect_answers,
      heap[o].attempted_questions>>

InStore(o) == \E u \in Users : user_states[u] = o

\* C1: for every session and every cursor position, at most one answer event is
\* scored against that position, also when two answer handlers of one user are
\* in flight at the same time.
C1_OneAnswerPerPosition ==
    \A o \in Sessions : \A p \in 1..Length(o) : ghost[o].scored[p] <= 1

\* C2: in every reachable state of every session, attempted_questions equals
\* correct_answers + incorrect_answers.
C2_AttemptedIsCorrectPlusIncorrect ==
    \A o \in Sessions :
        heap[o].attempted_questions = heap[o].correct_answers + heap[o].incorrect_answers

\* the steps of the handlers of user u
StepOf(u) ==
    \/ \E t \in TopicsOf(u) : StartQuiz(u, t)
    \/ \E msg \in 0..Len(messages), option \in AllOptions : HandleAnswer(u, msg, option)
    \/ SkipQuestion(u)
    \/ \E h \in InFlight : h.user = u /\ Resume(h)

\* the session dicts created for user v, by heap index
SessionsOf(v) ==
    [o \in {x \in Sessions : ghost[x].owner = v} |-> heap[o]]

\* C3: a step of any handler of user u leaves the store entry of every other
\* user v, and every session dict ever created for v, as they were.
C3_OtherUsersUntouched ==
    [][\A u \in Users : StepOf(u) =>
          \A v \in Users \ {u} :
              /\ user_states'[v] = user_states[v]
              /\ \A o \in DOMAIN SessionsOf(v) : heap'[o] = heap[o]]_vars

\* Both users are in a quiz, and u1 has had an answer counted.
C3_Witness ==
    /\ user_states["u1"] # None
    /\ user_states["u2"] # None
    /\ heap[user_states["u1"]].attempted_questions > 0

\* C4: at every await point every session in the store has its cursor below
\* len(questions); a session leaves the store by end_quiz only with its cursor at
\* or past len(questions), that removal emits one summary, and no session yields
\* more than one summary.
C4_RemovedWhenComplete ==
    \A o \in Sessions :
        /\ InStore(o) => Cursor(o) < Length(o)
        /\ InStore(o) <=> ghost[o].status = "live"
        /\ ghost[o].status = "ended" => Cursor(o) >= Length(o)
        /\ ghost[o].status = "ended" <=> ghost[o].summaries = 1
        /\ ghost[o].summaries <= 1

\* A quiz has run to its end: its session is out of the store, one summary sent.
C4_Witness ==
    \E o \in Sessions :
        /\ ghost[o].status = "ended"
        /\ ghost[o].summaries = 1
        /\ ~InStore(o)
        /\ heap[o].attempted_questions > 0

\* C5: for every session dict, 0 <= current_q_index <= len(questions).
C5_CursorInRange ==
    \A o \in Sessions : 0 <= Cursor(o) /\ Cursor(o) <= Length(o)

\* the tap is on a button of a question of the user's current session that the
\* cursor has passed, an answer to that question was counted, and no answer
\* handler of the user is still in flight
AlreadyAnswered(u, msg) ==
    /\ msg \in 1..Len(messages)
    /\ user_states[u] # None
    /\ messages[msg].session = user_states[u]
    /\ messages[msg].pos < Cursor(user_states[u])
    /\ ghost[user_states[u]].scored[messages[msg].pos + 1] = 1
    /\ \A h \in InFlight : h.user = u => h.kind # "handle_answer"

\* C6: an answer event issued for a question the cursor has already passed, whose
\* answer was fully processed, changes no counter of the session and does not
\* advance its cursor.
C6_DuplicateAnswerIgnored ==
    [][\A u \in Users, msg \in 1..Len(messages), option \in AllOptions :
          (AlreadyAnswered(u, msg) /\ HandleAnswer(u, msg, option)) =>
              /\ heap' = heap
              /\ \A h \in BagToSet(handlers') : h.user = u => h.kind # "handle_answer"]_vars

AtInvalidQuestion(o) ==
    /\ Cursor(o) < Length(o)
    /\ ~IsValidQuestion(QuestionAt(heap[o], Cursor(o)))

\* C7: no step increments attempted_questions, correct_answers or
\* incorrect_answers of a session whose cursor points at an invalid question, and
\* attempted_questions never exceeds the number of valid questions of the session.
C7_InvalidNeverCounted ==
    [][\A o \in Sessions :
          /\ AtInvalidQuestion(o) =>
                /\ heap'[o].attempted_questions = heap[o].attempted_questions
                /\ heap'[o].correct_answers = heap[o].correct_answers
                /\ heap'[o].incorrect_answers = heap[o].incorrect_answers
          /\ heap'[o].attempted_questions <=
                Cardinality({i \in 1..Length(o) : IsValidQuestion(heap[o].questions[i])})]_vars

AnswerOrSkip(u) ==
    \/ \E msg \in 0..Len(messages), option \in AllOptions : HandleAnswer(u, msg, option)
    \/ SkipQuestion(u)

\* C8: an answer or skip event of a user with no session in the store changes
\* neither the store nor any session dict, leaves no handler in flight, and ends
\* by returning (SessionNotFound), not by raising.
C8_NoSessionIsNoOp ==
    [][\A u \in Users : (user_states[u] = None /\ AnswerOrSkip(u)) =>
          /\ UNCHANGED <<user_states, heap, messages, ghost, handlers>>
          /\ \E kind \in {"handle_answer", "skip_question"} :
                finished' = finished \cup {<<kind, "SessionNotFound">>}]_vars

\* While u1 is in a quiz, u2, who has no session, has sent an answer and a skip:
\* both handlers returned and u2 still has no session.
C8_Witness ==
    /\ <<"handle_answer", "SessionNotFound">> \in finished
    /\ <<"skip_question", "SessionNotFound">> \in finished
    /\ user_states["u1"] # None
    /\ user_states["u2"] = None

\* lines 220-227 as the claim states them, on the option of the tapped button
Expected(s, option, current_q) ==
    IF option = current_q.answer
    THEN [s EXCEPT !.attempted_questions = @ + 1, !.score = @ + 1, !.correct_answers = @ + 1]
    ELSE [s EXCEPT !.attempted_questions = @ + 1, !.incorrect_answers = @ + 1]

\* C9: an answer on an in-progress session whose current question is valid adds 1
\* to attempted_questions; it adds 1 to score and correct_answers when the
\* selected option is the question's answer, and 1 to incorrect_answers
\* otherwise; the handler then adds 1 to the cursor.
C9_AnswerScoring ==
    [][/\ \A u \in Users, msg \in 0..Len(messages), option \in AllOptions :
             ( /\ user_states[u] # None
               /\ Cursor(user_states[u]) < Length(user_states[u])
               /\ IsValidQuestion(QuestionAt(heap[user_states[u]], Cursor(user_states[u])))
               /\ HandleAnswer(u, msg, option) ) =>
                 heap'[user_states[u]] =
                     Expected(heap[user_states[u]], option,
                              QuestionAt(heap[user_states[u]], Cursor(user_states[u])))
       /\ \A h \in InFlight : ResumeAnswer(h) =>
             heap'[h.state].current_q_index = heap[h.state].current_q_index + 1]_vars

\* C10: starting a quiz from a readable, non-empty topic puts a new session dict
\* with cursor and counters 0 in the store for that user; and no later step of a
\* handler that holds the replaced session changes the new session.
C10_FreshSessionIsolated ==
    [][/\ \A u \in Users, t \in Topics :
             (StartQuiz(u, t) /\ TopicFiles[t].readable /\ TopicFiles[t].questions # <<>>) =>
                 /\ user_states'[u] = Len(heap) + 1
                 /\ Len(heap') = Len(heap) + 1
                 /\ heap'[Len(heap) + 1].current_q_index = 0
                 /\ heap'[Len(heap) + 1].score = 0
                 /\ heap'[Len(heap) + 1].correct_answers = 0
                 /\ heap'[Len(heap) + 1].incorrect_answers = 0
                 /\ heap'[Len(heap) + 1].attempted_questions = 0
       /\ \A h \in InFlight :
             ( /\ h.state # None
               /\ ghost[h.state].status = "replaced"
               /\ user_states[h.user] # None
               /\ Resume(h) ) =>
                 heap'[user_states[h.user]] = heap[user_states[h.user]]]_vars

\* C11: no topic selection ends by reporting a load failure (the file-read error
\* message of lines 148-151 and the main menu) with a session in the user's store
\* entry that was put there since the selection began: the entry is what it was
\* before the selection.
C11_LoadFailureCreatesNoSession ==
    \A o \in Sessions : ghost[o].report # "LoadError"

\* C12: selecting a topic whose file is read but holds an empty question list
\* creates no session: the store and every session dict are the same before and
\* after, a user without a session stays without one, and no handler stays in
\* flight.
C12_EmptyTopicCreatesNoSession ==
    [][\A u \in Users, t \in Topics :
          (TopicFiles[t].readable /\ TopicFiles[t].questions = <<>> /\ StartQuiz(u, t)) =>
              /\ user_states' = user_states
              /\ heap' = heap
              /\ handlers' = handlers
              /\ messages' = messages]_vars

\* The empty topic was selected and its selection is over: nobody has a session.
C12_Witness ==
    /\ <<"start_quiz", "EmptyTopic">> \in finished
    /\ \A u \in Users : user_states[u] = None
    /\ heap = <<>>
    /\ handlers = EmptyBag

\* C13: the cursor of a session never decreases; no session takes more than
\* len(questions) answer and skip events; and a session that has taken
\* len(questions) of them, with no handler of its user in flight, has its cursor
\* at len(questions) and is out of the store.
C13_CursorReachesEnd ==
    [][\A o \in Sessions :
          /\ heap'[o].current_q_index >= heap[o].current_q_index
          /\ ghost'[o].taken <= Length(o)
          /\ ( /\ ghost'[o].taken = Length(o)
               /\ \A h \in BagToSet(handlers') : h.user # ghost[o].owner ) =>
                 /\ heap'[o].current_q_index = Length(o)
                 /\ user_states'[ghost[o].owner] # o]_vars

\* C14: end_quiz for a user who has no session returns without changing the
\* store and without a summary; and calling end_quiz twice for a user leaves the
\* store as calling it once does, the second call sending no summary.
C14_EndQuizIdempotent ==
    \A uid \in Users :
        LET once == EndQuiz(user_states, uid)
            twice == EndQuiz(once.store, uid)
        IN  /\ user_states[uid] = None =>
                  /\ once.store = user_states
                  /\ once.summary = None
            /\ user_states[uid] # None =>
                  /\ once.store[uid] = None
                  /\ once.summary = user_states[uid]
            /\ twice.store = once.store
            /\ twice.summary = None

\* end_quiz has ended the quiz of a user, who has no session now, while the
\* other user is in a quiz.
C14_Witness ==
    \E o \in Sessions :
        /\ ghost[o].status = "ended"
        /\ user_states[ghost[o].owner] = None
        /\ \E v \in Users : user_states[v] # None

Occurrences(qs, q) == Cardinality({i \in 1..Len(qs) : qs[i] = q})

\* same length and same elements with the same multiplicities
IsPermutation(a, b) ==
    /\ Len(a) = Len(b)
    /\ \A i \in 1..Len(a) : Occurrences(a, a[i]) = Occurrences(b, a[i])

\* C16: the question list of a session is, when the session is created, a
\* permutation of the loaded list (same length, same elements with the same
\* multiplicities), and no step changes the question list of a session.
C16_QuestionsArePermutation ==
    [][/\ \A u \in Users, t \in Topics :
             (StartQuiz(u, t) /\ Len(heap') = Len(heap) + 1) =>
                 IsPermutation(heap'[Len(heap')].questions, TopicFiles[t].questions)
       /\ \A o \in Sessions : heap'[o].questions = heap[o].questions]_vars

\* A session whose list is not in file order has been answered and skipped
\* through to its end.
C16_Witness ==
    \E o \in Sessions :
        /\ heap[o].questions = <<QJapan, QFrance>>
        /\ ghost[o].status = "ended"
        /\ ghost[o].taken = 2

AllValid(o) == \A i \in 1..Length(o) : IsValidQuestion(heap[o].questions[i])

\* C17: when updates are processed one after another, a session of valid
\* questions in which c taps were on the correct option and w on another one,
\* the other questions being skipped, ends with score = c, correct_answers = c,
\* incorrect_answers = w, attempted_questions = c + w in its one summary, and is
\* out of the store.
C17_SequentialSummary ==
    \A o \in Sessions :
        (ghost[o].status = "ended" /\ AllValid(o)) =>
            /\ ghost[o].taken = Length(o)
            /\ heap[o].score = ghost[o].right
            /\ heap[o].correct_answers = ghost[o].right
            /\ heap[o].incorrect_answers = ghost[o].wrong
            /\ heap[o].attempted_questions = ghost[o].right + ghost[o].wrong
            /\ ghost[o].summaries = 1
            /\ ~InStore(o)

\* C18: every automatic skip of the advance step (the increment of line 105 and
\* the send_question that follows it) leaves the cursor of its session at most
\* at len(questions), so that a session has at most len(questions) skips, and
\* either goes on to the next skip, or stops at a valid question that it
\* presents, or stops at cursor = len(questions) and ends the quiz; also when
\* other updates of the same user are handled in between.
C18_AdvanceStops ==
    [][\A h \in InFlight : ResumeL104(h) =>
          /\ heap'[h.sq_state].current_q_index <= Length(h.sq_state)
          /\ \/ handlers' # Others(h)
             \/ messages' # messages
             \/ /\ heap'[h.sq_state].current_q_index = Length(h.sq_state)
                /\ ghost'[h.sq_state].summaries = ghost[h.sq_state].summaries + 1]_vars

\* C19: the automatic skip (the increment of line 105) only moves the cursor
\* past an invalid question: when it is applied, the cursor of its session is at
\* the invalid question the skip was started for.  Valid questions are passed
\* only by the increments of answer and skip events.
C19_AutoSkipPassesOnlyInvalid ==
    [][\A h \in InFlight : ResumeL104(h) => AtInvalidQuestion(h.sq_state)]_vars

\* C20: in every reachable state, the score of every session dict equals its
\* correct_answers.
C20_ScoreIsCorrectCount ==
    \A o \in Sessions : heap[o].score = heap[o].correct_answers

\* A session has a correct and an incorrect answer counted.
C20_Witness ==
    \E o \in Sessions :
        /\ heap[o].score = 1
        /\ heap[o].incorrect_answers = 1

====
